---- MODULE Spec2Model ----
(***************************************************************************)
(* Model of thermovision-video-api: the thermal processor                  *)
(* (src/thermal_processor.py) and the job orchestrator (src/app.py).       *)
(*                                                                         *)
(* Fractions (percentiles, gamma, alpha, scores) are fixed-point numbers   *)
(* in thousandths: 0.999 is 999, 0.01 is 10, 6.0 is 6000. Temperatures are *)
(* in thousandths of a degree, frame rates in thousandths of a frame per   *)
(* second.                                                                 *)
(*                                                                         *)
(* The module holds several specifications over the same variables:        *)
(*   SpecCfg  building the configuration (upload, parse_args)              *)
(*   Spec     one run of process_video, with an external kill              *)
(*   SpecHot  find_hotspots_from_thr on one frame                          *)
(*   SpecSum  build_summary on the hotspots accumulated over some frames   *)
(*   SpecJob  run_job in the orchestrator                                  *)
(*   SpecJobFair  the same, threads scheduled and subprocesses terminating *)
(*   SpecSse  run_job with a client of sse_log_stream                      *)
(*   SpecFrame  the loop body of process_video on one frame                *)
(* A specification leaves the variables of the others at their idle value. *)
(***************************************************************************)
EXTENDS Integers, Sequences, FiniteSets, TLC

VARIABLES
    \* configuration
    cfg_pc,     \* "idle" | "start" | "argv" | "parsed"
    via,        \* "none" | "api" | "cli": who built the command line
    cli_args,   \* the options on the processor's command line: name -> <<value>> or <<>>
    args,       \* the namespace parse_args returns, or NoArgs
    \* find_hotspots_from_thr on one frame
    hot_pc,     \* "idle" | "call" | "returned"
    hot_in,     \* frame size H*W, the labelled components, the mapping parameters
    hot_out,    \* the list it returns
    \* build_summary
    sum_pc,     \* "idle" | "call" | "returned"
    sum_in,     \* the run's all_hotspots and frame counter
    summary,    \* the dict it returns
    \* one run of process_video
    pc,             \* the statement the run is at, or how it ended
    cap,            \* decoder handle: "none" | "unopened" | "open" | "released"
    out,            \* encoder handle: "none" | "unopened" | "open" | "released"
    fps,            \* frame rate used for tSec and the encoder
    total_frames,   \* CAP_PROP_FRAME_COUNT, 0 when unknown
    frame_idx,      \* frames processed so far
    written,        \* frames handed to the encoder
    all_hotspots,   \* the run-scoped hotspot list
    summary_json,   \* whether --summary-json was given
    summary_file,   \* "absent" | "stale" | "empty" | "partial" | "complete"
    env,            \* what the file system and the codecs answer in this run
    status,         \* the process's exit status: <<>> while it runs, then <<code>>
    log,            \* the lines printed on stderr
    \* the orchestrator
    JOBS,       \* job id -> job record, NoJob before upload
    job_pc,     \* job id -> position of its run_job thread
    proc,       \* job id -> the subprocess: its state and, once exited, its returncode
    rc,         \* job id -> run_job's local rc
    clock,      \* time.time()
    \* the per-frame pipeline of process_video's loop body
    frm_pc,     \* "idle" | "frame" | "summary" | "done"
    frm_in,     \* the smoothed score map, the namespace, the frame rate
    frm_out,    \* thresholds, hotspots, normalised map and output frame
    \* one client of sse_log_stream
    sse_pc,     \* "idle" | "poll" | "drain" | "ended"
    sse_job,    \* the job id of the stream
    sse_st,     \* the status read at the last poll
    sse_last,   \* last_index
    sse_out     \* the events yielded so far

cfgVars == <<cfg_pc, via, cli_args, args>>
hotVars == <<hot_pc, hot_in, hot_out>>
sumVars == <<sum_pc, sum_in, summary>>
runVars == <<pc, cap, out, fps, total_frames, frame_idx, written, all_hotspots,
             summary_json, summary_file, env, status, log>>
jobVars == <<JOBS, job_pc, proc, rc, clock>>
frmVars == <<frm_pc, frm_in, frm_out>>
sseVars == <<sse_pc, sse_job, sse_st, sse_last, sse_out>>

vars == <<cfg_pc, via, cli_args, args, hot_pc, hot_in, hot_out, sum_pc, sum_in,
          summary, pc, cap, out, fps, total_frames, frame_idx, written,
          all_hotspots, summary_json, summary_file, env, status, log, JOBS, job_pc,
          proc, rc, clock, frm_pc, frm_in, frm_out, sse_pc, sse_job, sse_st,
          sse_last, sse_out>>

----------------------------------------------------------------------------
(* Helpers                                                                  *)

Min(a, b) == IF a <= b THEN a ELSE b
Max(a, b) == IF a >= b THEN a ELSE b

\* An optional value: <<v>> when present, <<>> for None / missing / unparseable.
Opt(S) == {<<>>} \cup {<<v>> : v \in S}

RECURSIVE SumSeq(_)
SumSeq(s) == IF s = <<>> THEN 0 ELSE Head(s) + SumSeq(Tail(s))

RECURSIVE IPow(_, _)
IPow(b, e) == IF e = 0 THEN 1 ELSE b * IPow(b, e - 1)

\* s[:n]
Take(s, n) == SubSeq(s, 1, Min(n, Len(s)))

----------------------------------------------------------------------------
(* Configuration: src/app.py upload, src/thermal_processor.py parse_args    *)

PctMax == 999
PctBump == 10
GammaMin == 100
GammaMax == 6000
AlphaHi == 1000
DefaultPLow == 800
DefaultPHigh == 980
DefaultGamma == 1200
DefaultAlpha == 600
DefaultAmbient == 22
DefaultMaxC == 120

_as_float(value, default) == IF value = <<>> THEN default ELSE value[1]

\* An argparse option: its value when given, else the declared default.
ArgOr(value, default) == IF value = <<>> THEN default ELSE value[1]

_clamp(x, lo, hi) == Max(lo, Min(hi, x))

_as_choice(value, allowed, default) ==
    IF value = <<>> THEN default
    ELSE IF value[1] \in allowed THEN value[1] ELSE default

\* np.clip(x, lo, hi) on a finite scalar
np_clip(x, lo, hi) == Min(Max(x, lo), hi)

NoArgs == [none |-> TRUE]

\* upload, lines 193-217: the cli_args it stores in the job record.
UploadCliArgs(form) ==
    LET p_low == _clamp(_as_float(form.pLow, DefaultPLow), 0, PctMax)
        p_high0 == _clamp(_as_float(form.pHigh, DefaultPHigh), 0, PctMax)
        p_high == IF p_high0 <= p_low THEN Min(p_low + PctBump, PctMax) ELSE p_high0
        gamma == _clamp(_as_float(form.gamma, DefaultGamma), GammaMin, GammaMax)
        alpha == _clamp(_as_float(form.alpha, DefaultAlpha), 0, AlphaHi)
        stat == _as_choice(form.stat, {"avg", "max"}, "avg")
    IN [pLow |-> <<p_low>>, pHigh |-> <<p_high>>, gamma |-> <<gamma>>,
        alpha |-> <<alpha>>, stat |-> <<stat>>, ema |-> <<>>,
        ambient |-> <<>>, maxC |-> <<>>]

\* parse_args: argparse defaults, then the clamps of lines 141-149.
ParseArgsOf(argv) ==
    LET pLow == np_clip(ArgOr(argv.pLow, DefaultPLow), 0, PctMax)
        pHigh0 == np_clip(ArgOr(argv.pHigh, DefaultPHigh), 0, PctMax)
        pHigh == IF pHigh0 <= pLow THEN Min(pLow + PctBump, PctMax) ELSE pHigh0
        alpha == np_clip(ArgOr(argv.alpha, DefaultAlpha), 0, AlphaHi)
        ema == np_clip(ArgOr(argv.ema, 0), 0, AlphaHi)
    IN [pLow |-> pLow, pHigh |-> pHigh,
        gamma |-> ArgOr(argv.gamma, DefaultGamma),
        alpha |-> alpha,
        stat |-> ArgOr(argv.stat, "avg"),
        ambient |-> ArgOr(argv.ambient, DefaultAmbient),
        maxC |-> ArgOr(argv.maxC, DefaultMaxC),
        ema |-> ema]

\* The namespace of an invocation without options.
DefaultArgs ==
    ParseArgsOf([pLow |-> <<>>, pHigh |-> <<>>, gamma |-> <<>>, alpha |-> <<>>,
                 stat |-> <<>>, ema |-> <<>>, ambient |-> <<>>, maxC |-> <<>>])

----------------------------------------------------------------------------
(* Hotspots: src/thermal_processor.py find_hotspots_from_thr, score_to_temp *)

\* min_frac = 1e-4 = 1/MinFracDen, max_frac = 0.25 = 1/MaxFracDen
MinFracDen == 10000
MaxFracDen == 4
MaxBoxes == 20

\* score_to_temp: score and gamma in thousandths, ambient and maxC in degrees;
\* the result is in thousandths of a degree. The power is evaluated for whole
\* gamma (1000, 2000, ...): the fixed-point image of clip(score, 0, 1) ** gamma.
score_to_temp(score, ambient, maxC, gamma) ==
    LET e == gamma \div 1000
        c == np_clip(score, 0, 1000)
        sc == IF e = 0 THEN 1000 ELSE IPow(c, e) \div IPow(1000, e - 1)
    IN ambient * 1000 + (maxC - ambient) * sc

\* max(1, int(total * min_frac)), line 282
min_area_of(total) == Max(1, total \div MinFracDen)

\* max(min_area, int(total * max_frac)), line 283
max_area_of(total) == Max(min_area_of(total), total \div MaxFracDen)

\* A mutation of AreaKept: both comparisons strict the other way round (<=, >=).
AreaKept_strict(area, total) ==
    ~(area <= min_area_of(total) \/ area >= max_area_of(total))

\* A mutation of AreaKept: the upper test forgotten.
AreaKept_noUpper(area, total) ==
    ~(area < min_area_of(total))

\* The area test of line 288, negated: the component is kept.
AreaKept(area, total) ==
    ~(area < min_area_of(total) \/ area > max_area_of(total))

\* The dict appended for a kept component (lines 299-309); label stands for
\* the bounding box x, y, w, h of stats[label].
HotspotOf(c, ambient, maxC, gamma) ==
    [label |-> c.label, pixels |-> c.area, meanScore |-> c.meanScore,
     tempC |-> score_to_temp(c.meanScore, ambient, maxC, gamma)]

\* The loop of lines 285-309 over the labels, in label order: the components
\* that pass the area test, each turned into its dict.
Survivors(stats, total, ambient, maxC, gamma) ==
    LET kept == SelectSeq(stats, LAMBDA c : AreaKept(c.area, total))
    IN [i \in 1..Len(kept) |-> HotspotOf(kept[i], ambient, maxC, gamma)]

\* The place list.sort gives element i of s under key=pixels, reverse=True:
\* after every element with more pixels and, the sort being stable, after the
\* earlier elements with as many.
PlaceDesc(s, i) ==
    1 + Cardinality({j \in 1..Len(s) : s[j].pixels > s[i].pixels})
      + Cardinality({j \in 1..(i - 1) : s[j].pixels = s[i].pixels})

\* A mutation of SortByPixelsDesc: the sort forgotten.
SortByPixelsDesc_unsorted(s) == s

\* sort(key=pixels, reverse=True): stable, descending (lines 311 and 560).
SortByPixelsDesc(s) ==
    LET place == [i \in 1..Len(s) |-> PlaceDesc(s, i)]
    IN [k \in 1..Len(s) |-> s[CHOOSE i \in 1..Len(s) : place[i] = k]]

\* find_hotspots_from_thr, from the components of the mask (an empty mask has
\* none and returns [] at line 275).
find_hotspots_from_thr(total, stats, ambient, maxC, gamma) ==
    IF stats = <<>> THEN <<>>
    ELSE Take(SortByPixelsDesc(Survivors(stats, total, ambient, maxC, gamma)),
              MaxBoxes)

----------------------------------------------------------------------------
(* Summary: src/thermal_processor.py process_video 486-491, build_summary   *)

TopN == 40

\* A mutation of AppendFrame: frameIdx counted from 1.
AppendFrame_oneBased(all, hotspots, idx, rate) ==
    all \o [i \in 1..Len(hotspots) |->
              [label |-> hotspots[i].label, pixels |-> hotspots[i].pixels,
               meanScore |-> hotspots[i].meanScore, tempC |-> hotspots[i].tempC,
               frameIdx |-> idx + 1, tSec |-> (idx * 1000 * 1000) \div rate]]

\* Lines 487-491: the frame's hotspots, each copied with frameIdx and tSec,
\* appended to all_hotspots.
AppendFrame(all, hotspots, idx, rate) ==
    all \o [i \in 1..Len(hotspots) |->
              [label |-> hotspots[i].label, pixels |-> hotspots[i].pixels,
               meanScore |-> hotspots[i].meanScore, tempC |-> hotspots[i].tempC,
               frameIdx |-> idx, tSec |-> (idx * 1000 * 1000) \div rate]]

SeqMin(s) == CHOOSE m \in {s[i] : i \in 1..Len(s)} : \A j \in 1..Len(s) : m <= s[j]
SeqMax(s) == CHOOSE m \in {s[i] : i \in 1..Len(s)} : \A j \in 1..Len(s) : m >= s[j]

\* A mutation of build_summary: the temperatures taken over the listed top
\* hotspots only.
build_summary_topOnly(a, frames_used, duration_sec, hotspots) ==
    LET top_hotspots == Take(SortByPixelsDesc(hotspots), TopN)
        temps == [i \in 1..Len(top_hotspots) |-> top_hotspots[i].tempC]
    IN [framesUsed |-> frames_used, durationSec |-> duration_sec,
        stat |-> a.stat, percentileLow |-> a.pLow, percentileHigh |-> a.pHigh,
        ambientC |-> a.ambient, maxC |-> a.maxC, gamma |-> a.gamma,
        minHotspotTempC |-> IF hotspots # <<>> THEN <<SeqMin(temps)>> ELSE <<>>,
        maxHotspotTempC |-> IF hotspots # <<>> THEN <<SeqMax(temps)>> ELSE <<>>,
        hotspots |-> top_hotspots]

\* build_summary, lines 550-586 (file, width and height are copied through and
\* left out).
build_summary(a, frames_used, duration_sec, hotspots) ==
    LET top_hotspots == Take(SortByPixelsDesc(hotspots), TopN)
        temps == [i \in 1..Len(hotspots) |-> hotspots[i].tempC]
    IN [framesUsed |-> frames_used, durationSec |-> duration_sec,
        stat |-> a.stat, percentileLow |-> a.pLow, percentileHigh |-> a.pHigh,
        ambientC |-> a.ambient, maxC |-> a.maxC, gamma |-> a.gamma,
        minHotspotTempC |-> IF hotspots # <<>> THEN <<SeqMin(temps)>> ELSE <<>>,
        maxHotspotTempC |-> IF hotspots # <<>> THEN <<SeqMax(temps)>> ELSE <<>>,
        hotspots |-> top_hotspots]

----------------------------------------------------------------------------
(* Idle values: what a specification leaves of the other parts.             *)

NoJob == [none |-> TRUE]
NoProc == [state |-> "none", returncode |-> <<>>]
JobIds == {"a", "b"}

CfgIdle == cfg_pc = "idle" /\ via = "none" /\ cli_args = <<>> /\ args = NoArgs
HotIdle == hot_pc = "idle" /\ hot_in = <<>> /\ hot_out = <<>>
SumIdle == sum_pc = "idle" /\ sum_in = <<>> /\ summary = <<>>
RunIdle ==
    /\ pc = "idle" /\ cap = "none" /\ out = "none" /\ fps = 0 /\ total_frames = 0
    /\ frame_idx = 0 /\ written = 0 /\ all_hotspots = <<>> /\ summary_json = FALSE
    /\ summary_file = "absent" /\ env = <<>> /\ status = <<>> /\ log = <<>>
JobIdle ==
    /\ JOBS = [j \in JobIds |-> NoJob]
    /\ job_pc = [j \in JobIds |-> "none"]
    /\ proc = [j \in JobIds |-> NoProc]
    /\ rc = [j \in JobIds |-> -1]
    /\ clock = 0
FrmIdle == frm_pc = "idle" /\ frm_in = <<>> /\ frm_out = <<>>
SseIdle ==
    /\ sse_pc = "idle" /\ sse_job = "none" /\ sse_st = "none" /\ sse_last = 0
    /\ sse_out = <<>>

----------------------------------------------------------------------------
(* SpecCfg: the configuration is built, through the API or directly.        *)

\* Raw numeric inputs a client can send, in thousandths.
PctInputs == {-5, 0, 800, 980, 990, 998, 999, 1000, 1500}
GammaInputs == {-1000, 50, 1200, 6000, 7500}
AlphaInputs == {-200, 600, 1000, 1300}
EmaInputs == {500, 2000}
StatInputs == {"avg", "max", "median"}
AmbientInputs == {30}
MaxCInputs == {90}

CfgInit ==
    /\ cfg_pc = "start" /\ via = "none" /\ cli_args = <<>> /\ args = NoArgs
    /\ HotIdle /\ SumIdle /\ RunIdle /\ JobIdle /\ FrmIdle /\ SseIdle

\* POST /api/upload: the orchestrator clamps the form and builds cli_args,
\* which run_job puts on the processor's command line.
Upload ==
    /\ cfg_pc = "start"
    /\ \E pl \in Opt(PctInputs), ph \in Opt(PctInputs), g \in Opt(GammaInputs),
          a \in Opt(AlphaInputs), s \in Opt(StatInputs) :
          cli_args' = UploadCliArgs([pLow |-> pl, pHigh |-> ph, gamma |-> g,
                                     alpha |-> a, stat |-> s])
    /\ via' = "api"
    /\ cfg_pc' = "argv"
    /\ UNCHANGED <<args, hotVars, sumVars, runVars, jobVars, frmVars, sseVars>>

\* A direct command-line invocation: any floats, stat among argparse's choices.
CommandLine ==
    /\ cfg_pc = "start"
    /\ \E pl \in Opt(PctInputs), ph \in Opt(PctInputs), g \in Opt(GammaInputs),
          a \in Opt(AlphaInputs), s \in Opt({"avg", "max"}), e \in Opt(EmaInputs),
          am \in Opt(AmbientInputs), mc \in Opt(MaxCInputs) :
          cli_args' = [pLow |-> pl, pHigh |-> ph, gamma |-> g, alpha |-> a,
                       stat |-> s, ema |-> e, ambient |-> am, maxC |-> mc]
    /\ via' = "cli"
    /\ cfg_pc' = "argv"
    /\ UNCHANGED <<args, hotVars, sumVars, runVars, jobVars, frmVars, sseVars>>

\* parse_args in the processor.
ParseArgs ==
    /\ cfg_pc = "argv"
    /\ args' = ParseArgsOf(cli_args)
    /\ cfg_pc' = "parsed"
    /\ UNCHANGED <<via, cli_args, hotVars, sumVars, runVars, jobVars, frmVars,
                   sseVars>>

CfgNext == Upload \/ CommandLine \/ ParseArgs

SpecCfg == CfgInit /\ [][CfgNext]_vars

----------------------------------------------------------------------------
(* SpecHot: find_hotspots_from_thr applied to one frame's components.       *)

\* Frame sizes H*W: 3x1, 64x64, 128x96, 200x100, 640x480.
FrameSizes == {3, 4096, 12288, 20000, 307200}
MaxFill == 21

\* Component areas around the two thresholds of a frame of `total` pixels.
AreaChoices(total) ==
    {a \in {1, min_area_of(total) - 1, min_area_of(total), min_area_of(total) + 1,
            max_area_of(total) - 1, max_area_of(total), max_area_of(total) + 1} :
        a >= 1 /\ a <= total}

FillChoices(total) == {min_area_of(total), min_area_of(total) + 1}

\* Mean scores of the components, by label, in thousandths.
ScoreCycle == <<300, 1000, 650>>
HotGammas == {1000, 2000}

\* stats[1..] of connectedComponentsWithStats for the given areas, the mean
\* scores taken round `scores`.
MkStats(areas, scores) ==
    [i \in 1..Len(areas) |->
        [label |-> i, area |-> areas[i],
         meanScore |-> scores[((i - 1) % Len(scores)) + 1]]]

\* Components of one mask: an optional leading one, up to MaxFill equal ones,
\* an optional trailing one. They are disjoint: their areas sum to at most H*W.
ComponentAreas(total) ==
    {x \in {h \o [i \in 1..n |-> f] \o t :
               h \in Opt(AreaChoices(total)), n \in 0..MaxFill,
               f \in FillChoices(total), t \in Opt(AreaChoices(total))} :
        SumSeq(x) <= total}

HotInputs ==
    UNION {{[total |-> tot, stats |-> MkStats(as, ScoreCycle),
             ambient |-> DefaultAmbient, maxC |-> DefaultMaxC, gamma |-> g] :
               as \in ComponentAreas(tot), g \in HotGammas} : tot \in FrameSizes}

HotInit ==
    /\ hot_pc = "call" /\ hot_in \in HotInputs /\ hot_out = <<>>
    /\ CfgIdle /\ SumIdle /\ RunIdle /\ JobIdle /\ FrmIdle /\ SseIdle

HotCall ==
    /\ hot_pc = "call"
    /\ hot_out' = find_hotspots_from_thr(hot_in.total, hot_in.stats, hot_in.ambient,
                                         hot_in.maxC, hot_in.gamma)
    /\ hot_pc' = "returned"
    /\ UNCHANGED <<hot_in, cfgVars, sumVars, runVars, jobVars, frmVars, sseVars>>

HotNext == HotCall

SpecHot == HotInit /\ [][HotNext]_vars

----------------------------------------------------------------------------
(* SpecSum: build_summary on the hotspots a run accumulated.                *)

MaxSumFrames == 3
\* A 200x100 frame at 25 frames per second.
SumFrameSize == 200 * 100
SumFps == 25 * 1000

\* The components of the frames of the run, by area: an empty mask, a
\* component below the band, small ones, and a mask with more survivors than
\* the cap.
SumFrameAreas ==
    {<<>>, <<1>>, <<2, 3>>,
     <<2>> \o [i \in 1..(MaxBoxes + 1) |-> 3] \o <<4999>>}
SumScores == {<<650>>, <<100, 1000>>}

SumFrames == {MkStats(as, sc) : as \in SumFrameAreas, sc \in SumScores}

\* The frames of a run: up to MaxSumFrames of them.
SumRuns == UNION {[1..n -> SumFrames] : n \in 0..MaxSumFrames}

\* all_hotspots after the frames of `run`: each frame's hotspots (line 422)
\* appended in turn (lines 487-491).
RECURSIVE Accumulate(_, _)
Accumulate(run, n) ==
    IF n = 0 THEN <<>>
    ELSE AppendFrame(Accumulate(run, n - 1),
                     find_hotspots_from_thr(SumFrameSize, run[n], DefaultArgs.ambient,
                                            DefaultArgs.maxC, 1000),
                     n - 1, SumFps)

SumInit ==
    /\ sum_pc = "call"
    /\ \E run \in SumRuns :
          sum_in = [hotspots |-> Accumulate(run, Len(run)), frame_idx |-> Len(run)]
    /\ summary = <<>>
    /\ CfgIdle /\ HotIdle /\ RunIdle /\ JobIdle /\ FrmIdle /\ SseIdle

SumCall ==
    /\ sum_pc = "call"
    /\ summary' = build_summary(DefaultArgs, sum_in.frame_idx,
                                (sum_in.frame_idx * 1000 * 1000) \div SumFps,
                                sum_in.hotspots)
    /\ sum_pc' = "returned"
    /\ UNCHANGED <<sum_in, cfgVars, hotVars, runVars, jobVars, frmVars, sseVars>>

SumNext == SumCall

SpecSum == SumInit /\ [][SumNext]_vars

----------------------------------------------------------------------------
(* Spec: one run of process_video (src/thermal_processor.py 342-547), which *)
(* an external kill may end at any statement.                               *)

MaxFrames == 3
ProgressEvery == 30
FallbackFps == 25 * 1000

\* What CAP_PROP_FPS answers, in thousandths: 0 when detection fails.
FpsAnswers == {0, 10 * 1000}

\* The components of the frames of the run (200x100 frames).
RunFrames ==
    {<<>>, MkStats(<<3>>, <<650>>), MkStats(<<5000, 1, 2>>, <<300, 1000, 650>>)}

\* A video is short, up to MaxFrames frames of any of these, or long: up to
\* LongRun frames, none with a hotspot, enough for the progress cadence.
LongRun == ProgressEvery + 1

\* What CAP_PROP_FRAME_COUNT answers: 0 when unknown, else the count the
\* container declares.
FrameCounts == 0..MaxFrames \cup {ProgressEvery, LongRun}

\* Whether the stream can hold one more frame, and which.
MoreFrames ==
    IF frame_idx < MaxFrames THEN RunFrames
    ELSE IF all_hotspots = <<>> /\ frame_idx < LongRun THEN {<<>>} ELSE {}

\* What the file system and the codecs answer. A field the run never comes
\* to ask is left TRUE.
AllOk ==
    [input_exists |-> TRUE, cap_opens |-> TRUE, out_dir_ok |-> TRUE,
     out_opens |-> TRUE, sum_dir_ok |-> TRUE, sum_open_ok |-> TRUE,
     sum_dump_ok |-> TRUE]
Envs(with_summary) ==
    {AllOk, [AllOk EXCEPT !.input_exists = FALSE], [AllOk EXCEPT !.cap_opens = FALSE],
     [AllOk EXCEPT !.out_dir_ok = FALSE], [AllOk EXCEPT !.out_opens = FALSE]}
    \cup (IF with_summary
          THEN {[AllOk EXCEPT !.sum_dir_ok = FALSE], [AllOk EXCEPT !.sum_open_ok = FALSE],
                [AllOk EXCEPT !.sum_dump_ok = FALSE]}
          ELSE {})

Line(tag, n) == [tag |-> tag, n |-> n]
Logged(tag) == \E i \in 1..Len(log) : log[i].tag = tag

RunInit ==
    /\ pc = "start" /\ cap = "none" /\ out = "none" /\ fps = 0 /\ total_frames = 0
    /\ frame_idx = 0 /\ written = 0 /\ all_hotspots = <<>>
    /\ summary_json \in BOOLEAN
    /\ summary_file \in {"absent", "stale"}
    /\ env \in Envs(summary_json)
    /\ status = <<>> /\ log = <<>>
    /\ CfgIdle /\ HotIdle /\ SumIdle /\ JobIdle /\ FrmIdle /\ SseIdle

Others ==
    UNCHANGED <<cfgVars, hotVars, sum_pc, sum_in, jobVars, summary_json, env,
                frmVars, sseVars>>

\* A mutation of Fail: the error is printed and the run returns 0.
Fail_returnsZero(tag) ==
    /\ log' = Append(log, Line(tag, 0))
    /\ status' = <<0>>
    /\ pc' = "exit"

\* print ERROR ...; return 3 (lines 344-348, 352-356, 380-385)
Fail(tag) ==
    /\ log' = Append(log, Line(tag, 0))
    /\ status' = <<3>>
    /\ pc' = "exit"

\* return 0 (line 547), after printing `lines`
Return0(lines) ==
    /\ log' = log \o lines
    /\ status' = <<0>>
    /\ pc' = "exit"

\* An exception no handler catches: the interpreter prints the traceback and
\* the process exits with status 1.
Uncaught ==
    /\ log' = Append(log, Line("Traceback", 0))
    /\ status' = <<1>>
    /\ pc' = "crashed"

\* Lines 343-348.
CheckInput ==
    /\ pc = "start"
    /\ IF env.input_exists
       THEN pc' = "open_input" /\ UNCHANGED <<status, log>>
       ELSE Fail("ERROR input_not_found")
    /\ UNCHANGED <<cap, out, fps, total_frames, frame_idx, written, all_hotspots,
                   summary_file, summary>>
    /\ Others

\* Lines 350-372.
OpenInput ==
    /\ pc = "open_input"
    /\ IF env.cap_opens
       THEN /\ cap' = "open"
            /\ \E rate \in FpsAnswers, count \in FrameCounts :
                  /\ fps' = IF rate <= 0 THEN FallbackFps ELSE rate
                  /\ total_frames' = count
            /\ log' = Append(log, Line("meta", 0))
            /\ pc' = "open_output"
            /\ UNCHANGED status
       ELSE /\ cap' = "unopened"
            /\ Fail("ERROR cannot_open_input")
            /\ UNCHANGED <<fps, total_frames>>
    /\ UNCHANGED <<out, frame_idx, written, all_hotspots, summary_file, summary>>
    /\ Others

\* Lines 374-387.
OpenOutput ==
    /\ pc = "open_output"
    /\ IF ~env.out_dir_ok
       THEN Uncaught /\ UNCHANGED <<cap, out>>
       ELSE IF env.out_opens
            THEN out' = "open" /\ pc' = "loop" /\ UNCHANGED <<cap, status, log>>
            ELSE /\ out' = "unopened"
                 /\ cap' = "released"
                 /\ Fail("ERROR cannot_open_output")
    /\ UNCHANGED <<fps, total_frames, frame_idx, written, all_hotspots,
                   summary_file, summary>>
    /\ Others

\* The progress line of lines 495-509, if one is due after n frames.
Progress(n, total) ==
    IF total > 0
    THEN IF n % ProgressEvery = 0 \/ n = total
         THEN <<Line("progress", n)>> ELSE <<>>
    ELSE IF n % ProgressEvery = 0 THEN <<Line("progress", n)>> ELSE <<>>

\* One iteration of the loop, lines 391-509: a frame is read, scored, its
\* hotspots found, the output frame written, the hotspots accumulated.
ProcessFrame ==
    /\ pc = "loop"
    /\ \E stats \in MoreFrames :
          all_hotspots' =
              AppendFrame(all_hotspots,
                          find_hotspots_from_thr(SumFrameSize, stats, DefaultArgs.ambient,
                                                 DefaultArgs.maxC, DefaultArgs.gamma),
                          frame_idx, fps)
    /\ written' = written + 1
    /\ frame_idx' = frame_idx + 1
    /\ log' = log \o Progress(frame_idx + 1, total_frames)
    /\ UNCHANGED <<pc, cap, out, fps, total_frames, summary_file, summary, status>>
    /\ Others

\* An iteration in which a statement of lines 396-484 raises: nothing
\* catches it.
FrameError ==
    /\ pc = "loop"
    /\ frame_idx < MaxFrames
    /\ Uncaught
    /\ UNCHANGED <<cap, out, fps, total_frames, frame_idx, written, all_hotspots,
                   summary_file, summary>>
    /\ Others

\* cap.read() answers ret = False: break (lines 391-393).
EndOfStream ==
    /\ pc = "loop"
    /\ pc' = "release_cap"
    /\ UNCHANGED <<cap, out, fps, total_frames, frame_idx, written, all_hotspots,
                   summary_file, summary, status, log>>
    /\ Others

\* Line 511.
ReleaseCap ==
    /\ pc = "release_cap"
    /\ cap' = "released"
    /\ pc' = "release_out"
    /\ UNCHANGED <<out, fps, total_frames, frame_idx, written, all_hotspots,
                   summary_file, summary, status, log>>
    /\ Others

\* Lines 512-520.
ReleaseOut ==
    /\ pc = "release_out"
    /\ out' = "released"
    /\ log' = Append(log, Line("done OK", frame_idx))
    /\ pc' = "summary"
    /\ UNCHANGED <<cap, fps, total_frames, frame_idx, written, all_hotspots,
                   summary_file, summary, status>>
    /\ Others

\* Lines 523-533: nothing to do without --summary-json; else the parent
\* directory is created (outside the try) and the summary is built.
PrepareSummary ==
    /\ pc = "summary"
    /\ IF ~summary_json
       THEN Return0(<<>>) /\ UNCHANGED summary
       ELSE IF ~env.sum_dir_ok
            THEN Uncaught /\ UNCHANGED summary
            ELSE /\ summary' = build_summary(DefaultArgs, frame_idx,
                                             (frame_idx * 1000 * 1000) \div fps,
                                             all_hotspots)
                 /\ pc' = "summary_open"
                 /\ UNCHANGED <<status, log>>
    /\ UNCHANGED <<cap, out, fps, total_frames, frame_idx, written, all_hotspots,
                   summary_file>>
    /\ Others

Warning == <<Line("WARNING cannot write summary_json", 0)>>

\* Line 535: open(path, "w") creates or truncates the file; a failure is
\* caught at line 541.
OpenSummary ==
    /\ pc = "summary_open"
    /\ IF env.sum_open_ok
       THEN summary_file' = "empty" /\ pc' = "summary_dump" /\ UNCHANGED <<status, log>>
       ELSE Return0(Warning) /\ UNCHANGED summary_file
    /\ UNCHANGED <<cap, out, fps, total_frames, frame_idx, written, all_hotspots,
                   summary>>
    /\ Others

\* Line 536: json.dump writes the document piece by piece; a failure on the
\* way is caught at line 541 and leaves what was written.
DumpSummary ==
    /\ pc = "summary_dump"
    /\ summary_file' = "partial"
    /\ IF env.sum_dump_ok
       THEN pc' = "summary_close" /\ UNCHANGED <<status, log>>
       ELSE Return0(Warning)
    /\ UNCHANGED <<cap, out, fps, total_frames, frame_idx, written, all_hotspots,
                   summary>>
    /\ Others

\* Lines 535-547: the with block ends, the file is flushed and closed, the
\* run returns 0.
CloseSummary ==
    /\ pc = "summary_close"
    /\ summary_file' = "complete"
    /\ Return0(<<Line("summary written", 0)>>)
    /\ UNCHANGED <<cap, out, fps, total_frames, frame_idx, written, all_hotspots,
                   summary>>
    /\ Others

Running == pc \notin {"idle", "exit", "crashed", "killed"}

\* The invoking collaborator kills the process (SIGKILL): it stops where it is.
Kill ==
    /\ Running
    /\ pc' = "killed"
    /\ status' = <<-9>>
    /\ UNCHANGED <<cap, out, fps, total_frames, frame_idx, written, all_hotspots,
                   summary_file, summary, log>>
    /\ Others

Next ==
    \/ CheckInput \/ OpenInput \/ OpenOutput
    \/ ProcessFrame \/ FrameError \/ EndOfStream
    \/ ReleaseCap \/ ReleaseOut
    \/ PrepareSummary \/ OpenSummary \/ DumpSummary \/ CloseSummary
    \/ Kill

Init == RunInit

Spec == Init /\ [][Next]_vars

----------------------------------------------------------------------------
(* SpecJob: the orchestrator (src/app.py): upload creates a job and starts  *)
(* a run_job thread for it; every access to JOBS is under JOBS_LOCK, so     *)
(* each locked block is one step.                                           *)

MaxLines == 2

\* Exit statuses of the processor: success, an uncaught exception, an
\* argparse error, an open failure, killed by SIGKILL.
ExitCodes == {0, 1, 2, 3, -9}

EmptyForm == [pLow |-> <<>>, pHigh |-> <<>>, gamma |-> <<>>, alpha |-> <<>>,
              stat |-> <<>>]

JobInit ==
    /\ JobIdle /\ SseIdle
    /\ CfgIdle /\ HotIdle /\ SumIdle /\ RunIdle /\ FrmIdle

JobOthers == UNCHANGED <<cfgVars, hotVars, sumVars, runVars, frmVars, sseVars>>

\* upload, lines 219-236: the job record is stored and its thread started.
UploadJob(j) ==
    /\ JOBS[j] = NoJob
    /\ JOBS' = [JOBS EXCEPT ![j] =
                  [status |-> "queued", log |-> <<Line("[api] params", 0)>>,
                   error |-> <<>>,
                   cli_args |-> UploadCliArgs(EmptyForm), created_at |-> <<clock>>,
                   started_at |-> <<>>, finished_at |-> <<>>]]
    /\ job_pc' = [job_pc EXCEPT ![j] = "start"]
    /\ clock' = clock + 1
    /\ UNCHANGED <<proc, rc>>
    /\ JobOthers

\* run_job, lines 68-78.
RunJobStart(j) ==
    /\ job_pc[j] = "start"
    /\ JOBS' = [JOBS EXCEPT ![j].status = "running", ![j].started_at = <<clock>>]
    /\ job_pc' = [job_pc EXCEPT ![j] = "check"]
    /\ clock' = clock + 1
    /\ UNCHANGED <<proc, rc>>
    /\ JobOthers

\* A mutation of FailJob: finished_at is left unset.
FailJob_noFinishedAt(j, message) ==
    /\ JOBS' = [JOBS EXCEPT ![j].status = "error", ![j].error = <<message>>]
    /\ job_pc' = [job_pc EXCEPT ![j] = "returned"]
    /\ clock' = clock + 1

\* The job is marked failed before any subprocess ran (lines 82-88, 110-116).
FailJob(j, message) ==
    /\ JOBS' = [JOBS EXCEPT ![j].status = "error", ![j].error = <<message>>,
                            ![j].finished_at = <<clock>>]
    /\ job_pc' = [job_pc EXCEPT ![j] = "returned"]
    /\ clock' = clock + 1

\* run_job, lines 80-98: the processor script is looked up.
CheckProcessor(j) ==
    /\ job_pc[j] = "check"
    /\ \E exists \in BOOLEAN :
          IF exists
          THEN /\ job_pc' = [job_pc EXCEPT ![j] = "popen"]
               /\ rc' = [rc EXCEPT ![j] = -1]
               /\ UNCHANGED <<JOBS, clock>>
          ELSE FailJob(j, "thermal_processor.py not found") /\ UNCHANGED rc
    /\ UNCHANGED proc
    /\ JobOthers

\* run_job, lines 100-116: the subprocess is started, or Popen raises.
Popen(j) ==
    /\ job_pc[j] = "popen"
    /\ \E started \in BOOLEAN :
          IF started
          THEN /\ proc' = [proc EXCEPT ![j].state = "running"]
               /\ job_pc' = [job_pc EXCEPT ![j] = "read"]
               /\ UNCHANGED <<JOBS, clock>>
          ELSE FailJob(j, "Failed to start thermal_processor") /\ UNCHANGED proc
    /\ UNCHANGED rc
    /\ JobOthers

\* The subprocess ends with an exit status.
ProcExit(j) ==
    /\ proc[j].state = "running"
    /\ \E code \in ExitCodes :
          proc' = [proc EXCEPT ![j] = [state |-> "exited", returncode |-> <<code>>]]
    /\ UNCHANGED <<JOBS, job_pc, rc, clock>>
    /\ JobOthers

\* run_job, lines 120-126: one line of the subprocess's output, its n-th, is
\* appended to the job's log.
ReadLine(j) ==
    /\ job_pc[j] = "read"
    /\ Len(JOBS[j].log) <= MaxLines
    /\ JOBS' = [JOBS EXCEPT ![j].log = Append(@, Line("out", Len(@)))]
    /\ UNCHANGED <<job_pc, proc, rc, clock>>
    /\ JobOthers

\* run_job, lines 118-135: reading the output raises; the finally block
\* closes the pipe and the exception ends the thread.
ReadError(j) ==
    /\ job_pc[j] = "read"
    /\ job_pc' = [job_pc EXCEPT ![j] = "died"]
    /\ UNCHANGED <<JOBS, proc, rc, clock>>
    /\ JobOthers

\* run_job, lines 128-135: end of output, proc.wait(), rc = proc.returncode.
Wait(j) ==
    /\ job_pc[j] = "read"
    /\ proc[j].state = "exited"
    /\ rc' = [rc EXCEPT ![j] = proc[j].returncode[1]]
    /\ job_pc' = [job_pc EXCEPT ![j] = "finish"]
    /\ UNCHANGED <<JOBS, proc, clock>>
    /\ JobOthers

\* A mutation of JobOutcome: only a positive status counts as a failure.
JobOutcome_positiveOnly(code) ==
    IF code <= 0
    THEN [status |-> "done", error |-> <<>>]
    ELSE [status |-> "error", error |-> <<"thermal_processor exited with code ", code>>]

\* Lines 144-148: the status, and the error message whose f-string ends with
\* the code; error stays None when the code is 0.
JobOutcome(code) ==
    IF code = 0
    THEN [status |-> "done", error |-> <<>>]
    ELSE [status |-> "error", error |-> <<"thermal_processor exited with code ", code>>]

\* run_job, lines 137-148.
Finish(j) ==
    /\ job_pc[j] = "finish"
    /\ JOBS' = [JOBS EXCEPT ![j].finished_at = <<clock>>,
                            ![j].status = JobOutcome(rc[j]).status,
                            ![j].error = IF JobOutcome(rc[j]).error = <<>>
                                         THEN @ ELSE JobOutcome(rc[j]).error]
    /\ job_pc' = [job_pc EXCEPT ![j] = "returned"]
    /\ clock' = clock + 1
    /\ UNCHANGED <<proc, rc>>
    /\ JobOthers

JobNext ==
    \E j \in JobIds :
        \/ UploadJob(j) \/ RunJobStart(j) \/ CheckProcessor(j) \/ Popen(j)
        \/ ProcExit(j) \/ ReadLine(j) \/ ReadError(j) \/ Wait(j) \/ Finish(j)

SpecJob == JobInit /\ [][JobNext]_vars

\* The steps of job j's run_job thread, but for a failure of the read.
ThreadStep(j) ==
    \/ RunJobStart(j) \/ CheckProcessor(j) \/ Popen(j)
    \/ ReadLine(j) \/ Wait(j) \/ Finish(j)

\* SpecJob with the threads scheduled and the subprocesses terminating: a
\* started thread runs on (daemon threads of one interpreter), a started
\* subprocess exits.
SpecJobFair ==
    /\ JobInit /\ [][JobNext]_vars
    /\ \A j \in JobIds : WF_vars(ThreadStep(j)) /\ WF_vars(ProcExit(j))

----------------------------------------------------------------------------
(* SpecSse: a client of sse_log_stream (src/app.py 260-280) tails the log   *)
(* of a job while run_job runs. The block under JOBS_LOCK is one step; the  *)
(* list `logs` is the job's own list, read again at every turn of the inner *)
(* loop.                                                                    *)

\* The jobs uploaded while the client is there; the client may ask for any
\* job id.
SseJobs == {"a"}

Event(name, data) == [event |-> name, data |-> data]

\* A mutation of StreamEnds: the stream also ends on a running job.
StreamEnds_whileRunning(st) == st \in {"running", "done", "error"}

\* Line 276.
StreamEnds(st) == st \in {"done", "error"}

\* GET /api/logs/<job_id>: the generator is created (line 261).
OpenStream(j) ==
    /\ sse_pc = "idle"
    /\ sse_job' = j
    /\ sse_last' = 0
    /\ sse_pc' = "poll"
    /\ UNCHANGED <<sse_st, sse_out>>
    /\ UNCHANGED <<cfgVars, hotVars, sumVars, runVars, jobVars, frmVars>>

\* Lines 263-269: under the lock, the job is looked up, its log list and its
\* status are taken.
Poll ==
    /\ sse_pc = "poll"
    /\ IF JOBS[sse_job] = NoJob
       THEN /\ sse_out' = Append(sse_out, Event("error", Line("unknown_job", 0)))
            /\ sse_pc' = "ended"
            /\ UNCHANGED sse_st
       ELSE /\ sse_st' = JOBS[sse_job].status
            /\ sse_pc' = "drain"
            /\ UNCHANGED sse_out
    /\ UNCHANGED <<sse_job, sse_last>>
    /\ UNCHANGED <<cfgVars, hotVars, sumVars, runVars, jobVars, frmVars>>

\* Lines 271-274: one turn of the inner loop.
YieldLine ==
    /\ sse_pc = "drain"
    /\ sse_last < Len(JOBS[sse_job].log)
    /\ sse_out' = Append(sse_out, Event("data", JOBS[sse_job].log[sse_last + 1]))
    /\ sse_last' = sse_last + 1
    /\ UNCHANGED <<sse_pc, sse_job, sse_st>>
    /\ UNCHANGED <<cfgVars, hotVars, sumVars, runVars, jobVars, frmVars>>

\* Lines 271, 276-280: the inner loop ends; the stream ends with the done
\* event, or sleeps and polls again.
EndOrSleep ==
    /\ sse_pc = "drain"
    /\ ~(sse_last < Len(JOBS[sse_job].log))
    /\ IF StreamEnds(sse_st)
       THEN /\ sse_out' = Append(sse_out, Event("done", Line(sse_st, 0)))
            /\ sse_pc' = "ended"
       ELSE /\ sse_pc' = "poll"
            /\ UNCHANGED sse_out
    /\ UNCHANGED <<sse_job, sse_st, sse_last>>
    /\ UNCHANGED <<cfgVars, hotVars, sumVars, runVars, jobVars, frmVars>>

SseNext ==
    \E j \in SseJobs :
        \/ UploadJob(j) \/ RunJobStart(j) \/ CheckProcessor(j) \/ Popen(j)
        \/ ProcExit(j) \/ ReadLine(j) \/ ReadError(j) \/ Wait(j) \/ Finish(j)
        \/ OpenStream(j) \/ Poll \/ YieldLine \/ EndOrSleep

SpecSse == JobInit /\ [][SseNext]_vars

----------------------------------------------------------------------------
(* SpecFrame: the body of process_video's loop on one frame (lines 404-491) *)
(* and the summary of that one-frame run. The frame is one row of pixels;   *)
(* heat_used holds one score per pixel, in thousandths. Thresholds are in   *)
(* millionths, normalised values in thousandths.                            *)

MaxPixels == 4
\* 1e-6, in millionths (line 419)
Eps == 1
\* What numpy gives for 0 / 0.
NaN == -1

\* np.sort(flat), line 407: ascending; element i goes after the smaller ones
\* and the equal ones before it.
PlaceAsc(s, i) ==
    1 + Cardinality({j \in 1..Len(s) : s[j] < s[i]})
      + Cardinality({j \in 1..(i - 1) : s[j] = s[i]})
np_sort(s) ==
    LET place == [i \in 1..Len(s) |-> PlaceAsc(s, i)]
    IN [k \in 1..Len(s) |-> s[CHOOSE i \in 1..Len(s) : place[i] = k]]

\* A fraction p (thousandths) is a binary fraction, exact as a float.
ExactFloat(p) == p % 125 = 0

\* int(p * n), lines 408-409. The product is a float: when p is not exact and
\* the real product is a whole number, the float may fall just below it and
\* int() then gives one less; `below` says whether it did.
IntOfProduct(p, n, below) ==
    LET exact == (p * n) \div 1000
    IN IF below /\ ~ExactFloat(p) /\ (p * n) % 1000 = 0 /\ exact > 0
       THEN exact - 1 ELSE exact

\* Whether rounding can matter for int(p * n).
Belows(p, n) ==
    IF ~ExactFloat(p) /\ (p * n) % 1000 = 0 /\ p * n > 0 THEN BOOLEAN ELSE {FALSE}

\* A mutation of Percentiles: with --stat max the high value is the maximum.
Percentiles_statMax(flat, a, below_low, below_high) ==
    IF Len(flat) > 0
    THEN LET flat_sorted == np_sort(flat)
             size == Len(flat_sorted)
             idx_low == Max(0, Min(IntOfProduct(a.pLow, size - 1, below_low), size - 1))
             idx_high == IF a.stat = "max" THEN size - 1
                         ELSE Max(0, Min(IntOfProduct(a.pHigh, size - 1, below_high),
                                         size - 1))
         IN [p_low_val |-> flat_sorted[idx_low + 1] * 1000,
             p_high_val |-> flat_sorted[idx_high + 1] * 1000]
    ELSE [p_low_val |-> 0, p_high_val |-> 1000 * 1000]

\* Lines 405-416: the two percentile values of the score map, in millionths.
Percentiles(flat, a, below_low, below_high) ==
    IF Len(flat) > 0
    THEN LET flat_sorted == np_sort(flat)
             size == Len(flat_sorted)
             idx_low == Max(0, Min(IntOfProduct(a.pLow, size - 1, below_low), size - 1))
             idx_high == Max(0, Min(IntOfProduct(a.pHigh, size - 1, below_high), size - 1))
         IN [p_low_val |-> flat_sorted[idx_low + 1] * 1000,
             p_high_val |-> flat_sorted[idx_high + 1] * 1000]
    ELSE [p_low_val |-> 0, p_high_val |-> 1000 * 1000]

\* A mutation of RepairHigh: the threshold is used as the percentile gave it.
RepairHigh_unrepaired(p_low_val, p_high_val) == p_high_val

\* Lines 418-419.
RepairHigh(p_low_val, p_high_val) ==
    IF p_high_val <= p_low_val THEN p_low_val + Eps ELSE p_high_val

\* A mutation of MaskOf: a pixel within 1e-6 of the threshold is taken.
MaskOf_within(heat_map, thr) ==
    {i \in 1..Len(heat_map) : heat_map[i] * 1000 + Eps >= thr}

\* Line 273: the pixels of the mask.
MaskOf(heat_map, thr) == {i \in 1..Len(heat_map) : heat_map[i] * 1000 >= thr}

\* cv2.connectedComponentsWithStats on a one-row mask (lines 277-279, 291,
\* 295): the components are the maximal runs of mask pixels, labelled from
\* left to right; each with its area and the mean of its scores.
ComponentsOf(heat_map, thr) ==
    LET mask == MaskOf(heat_map, thr)
        starts == {i \in mask : (i - 1) \notin mask}
        EndOf(i) == CHOOSE j \in mask :
                       /\ j >= i /\ (j + 1) \notin mask
                       /\ \A k \in i..j : k \in mask
        StartNo(k) == CHOOSE i \in starts :
                         Cardinality({x \in starts : x < i}) = k - 1
    IN [k \in 1..Cardinality(starts) |->
          LET i == StartNo(k)
              j == EndOf(i)
          IN [label |-> k, area |-> j - i + 1,
              meanScore |-> SumSeq(SubSeq(heat_map, i, j)) \div (j - i + 1)]]

\* Lines 431-435 for one pixel: np.clip((h - low) / (high - low), 0, 1).
Normalise(h, p_low_val, p_high_val) ==
    LET d == p_high_val - p_low_val
        x == h * 1000 - p_low_val
    IN IF d = 0
       THEN IF x > 0 THEN 1000 ELSE IF x < 0 THEN 0 ELSE NaN
       ELSE np_clip((x * 1000) \div d, 0, 1000)

\* build_colormap (lines 205-243) for one pixel, gamma a whole number: the
\* palette segment, tg and alpha.
build_colormap(t, gamma, alpha_max) ==
    LET e == gamma \div 1000
        tg == IPow(np_clip(t, 0, 1000), e) \div IPow(1000, e - 1)
    IN [seg |-> IF tg < 330 THEN 1 ELSE IF tg < 660 THEN 2 ELSE 3,
        tg |-> tg,
        alpha |-> np_clip((alpha_max * tg) \div 1000, 0, 1000)]

\* Lines 436-484: the frame handed to the encoder, as what is laid over the
\* input frame: per pixel the overlay colour and weight (none with
\* --no-overlay), and the boxes drawn with --preview.
OutFrame(t, a, no_overlay, preview, hotspots) ==
    [overlay |-> IF no_overlay THEN <<>>
                 ELSE [i \in 1..Len(t) |-> build_colormap(t[i], a.gamma, a.alpha)],
     boxes |-> IF preview
               THEN [i \in 1..Len(hotspots) |->
                       [label |-> hotspots[i].label, tempC |-> hotspots[i].tempC]]
               ELSE <<>>]

\* One iteration of the loop body on the score map of `in`, under the
\* namespace a (lines 404-491): thresholds, hotspots, normalised map, output
\* frame, and all_hotspots after the frame.
FrameResult(in, a) ==
    LET pv == Percentiles(in.heat_used, a, in.below_low, in.below_high)
        p_high_val == RepairHigh(pv.p_low_val, pv.p_high_val)
        hotspots == find_hotspots_from_thr(Len(in.heat_used),
                                           ComponentsOf(in.heat_used, p_high_val),
                                           a.ambient, a.maxC, a.gamma)
        t == [i \in 1..Len(in.heat_used) |->
                Normalise(in.heat_used[i], pv.p_low_val, p_high_val)]
    IN [p_low_val |-> pv.p_low_val, p_high_val |-> p_high_val,
        hotspots |-> hotspots, t |-> t,
        out_frame |-> OutFrame(t, a, in.no_overlay, in.preview, hotspots),
        all_hotspots |-> AppendFrame(<<>>, hotspots, in.frame_idx, in.fps)]

\* Scores of the pixels, in thousandths.
ScoreValues == {0, 300, 1000}

\* The smoothed score maps: every row of up to MaxPixels pixels (the empty
\* one included), and two rows of six pixels, one of them constant.
ScoreMaps ==
    UNION {[1..n -> ScoreValues] : n \in 0..MaxPixels}
    \cup {<<0, 300, 300, 1000, 300, 0>>, [i \in 1..6 |-> 300]}

\* The namespaces parse_args gives for some command lines.
FrameArgs ==
    {ParseArgsOf([pLow |-> pl, pHigh |-> ph, gamma |-> <<g>>, alpha |-> <<>>,
                  stat |-> se[1], ema |-> se[2], ambient |-> <<>>, maxC |-> <<>>]) :
        pl \in {<<>>, <<0>>, <<999>>}, ph \in {<<>>, <<999>>}, g \in HotGammas,
        se \in {<< <<>>, <<>> >>, << <<"max">>, <<500>> >>}}

FrameInit ==
    /\ frm_pc = "frame"
    /\ \E heat \in ScoreMaps, a \in FrameArgs, no \in BOOLEAN, pre \in BOOLEAN :
          \E bl \in Belows(a.pLow, Len(heat) - 1), bh \in Belows(a.pHigh, Len(heat) - 1) :
             frm_in = [heat_used |-> heat, args |-> a, no_overlay |-> no,
                       preview |-> pre, below_low |-> bl, below_high |-> bh,
                       frame_idx |-> 0, fps |-> FallbackFps]
    /\ frm_out = <<>>
    /\ CfgIdle /\ HotIdle /\ SumIdle /\ RunIdle /\ JobIdle /\ SseIdle

\* The loop body on the frame.
FrameStep ==
    /\ frm_pc = "frame"
    /\ frm_out' = FrameResult(frm_in, frm_in.args)
    /\ frm_pc' = "summary"
    /\ UNCHANGED <<frm_in, cfgVars, hotVars, sumVars, runVars, jobVars, sseVars>>

\* The end of the run: build_summary on what the frame accumulated (lines
\* 514, 526-533).
FrameSummary ==
    /\ frm_pc = "summary"
    /\ summary' = build_summary(frm_in.args, 1, (1 * 1000 * 1000) \div frm_in.fps,
                                frm_out.all_hotspots)
    /\ frm_pc' = "done"
    /\ UNCHANGED <<frm_in, frm_out, sum_pc, sum_in, cfgVars, hotVars, runVars,
                   jobVars, sseVars>>

FrameNext == FrameStep \/ FrameSummary

SpecFrame == FrameInit /\ [][FrameNext]_vars

----------------------------------------------------------------------------
(* Properties                                                               *)

\* C1 (as claimed): once the configuration is built, by upload's cli_args and
\* by parse_args, percentileHigh is strictly greater than percentileLow,
\* whatever pLow and pHigh were given.
C1_HighAboveLow ==
    /\ (cfg_pc \in {"argv", "parsed"} /\ via = "api")
          => cli_args.pHigh[1] > cli_args.pLow[1]
    /\ cfg_pc = "parsed" => args.pHigh > args.pLow

\* The run failed to open its input or its output.
OpenFailed == ~env.input_exists \/ ~env.cap_opens \/ ~env.out_opens
SummaryTouched == summary_file \in {"empty", "partial", "complete"}

\* C2 (as claimed): nothing is written at the summary path before the frame
\* loop has ended and both handles are released, and a run that was killed, or
\* that failed to open its input or output, leaves no partial summary file.
C2_SummaryOnlyWhenComplete ==
    /\ SummaryTouched => (Logged("done OK") /\ cap = "released" /\ out = "released")
    /\ (pc = "killed" \/ (pc # "idle" /\ OpenFailed))
          => summary_file \notin {"empty", "partial"}

\* C3: a run that returns after opening input and output exits with status
\* 0; a run whose input is missing, whose decoder or whose encoder cannot be
\* opened exits with status 3, which is not 0, and at no point reads, scores
\* or writes a frame, accumulates a hotspot or touches the summary file.
C3_ExitStatus ==
    pc # "idle" =>
        /\ (pc = "exit" /\ ~OpenFailed) => (status = <<0>> /\ Logged("done OK"))
        /\ OpenFailed =>
              /\ pc \in {"exit", "crashed"} => (pc = "exit" /\ status = <<3>> /\ 3 # 0)
              /\ pc \in {"start", "open_input", "open_output", "exit", "killed"}
              /\ frame_idx = 0 /\ written = 0 /\ all_hotspots = <<>>
              /\ ~SummaryTouched
              /\ ~Logged("done OK")

\* C3 witness: the encoder could not be opened and the run has exited with
\* status 3, the decoder released.
C3_Witness ==
    /\ pc = "exit" /\ env # <<>> /\ ~env.out_opens
    /\ status = <<3>> /\ cap = "released"
    /\ Logged("ERROR cannot_open_output")

\* C4 (as claimed): once the video run has completed and a summary was
\* requested, the run ends with status 0 whatever goes wrong with the summary
\* file, and a warning is logged when the file was not produced.
C4_SummaryFailureNonFatal ==
    (summary_json /\ Logged("done OK") /\ pc \in {"exit", "crashed"}) =>
        /\ status = <<0>>
        /\ summary_file # "complete" => Logged("WARNING cannot write summary_json")

\* C5 (as claimed): no run that has ended, by returning or by an error raised
\* on the way, holds a decoder or encoder handle it opened and did not release.
C5_HandlesReleased ==
    pc \in {"exit", "crashed"} => (cap # "open" /\ out # "open")

\* C6: a job whose subprocess exited with status 0 ends done with no error;
\* one whose subprocess exited with any other status ends in error with the
\* message "thermal_processor exited with code <status>"; no job is done
\* unless its subprocess exited with status 0.
C6_ExitStatusDecidesJob ==
    \A j \in JobIds :
        /\ (job_pc[j] = "returned" /\ proc[j].state = "exited") =>
              IF proc[j].returncode = <<0>>
              THEN JOBS[j].status = "done" /\ JOBS[j].error = <<>>
              ELSE /\ JOBS[j].status = "error"
                   /\ Len(JOBS[j].error) = 2
                   /\ JOBS[j].error[2] = proc[j].returncode[1]
        /\ (JOBS[j] # NoJob /\ JOBS[j].status = "done") => proc[j].returncode = <<0>>

\* C6 witness: a job whose subprocess was killed (status -9) is in error, the
\* message carrying -9, while another job ended done.
C6_Witness ==
    \E j, k \in JobIds :
        /\ job_pc[j] = "returned" /\ proc[j].returncode = <<-9>>
        /\ JOBS[j].status = "error"
        /\ JOBS[j].error = <<"thermal_processor exited with code ", -9>>
        /\ job_pc[k] = "returned" /\ JOBS[k].status = "done"

\* The components of the frame and the list returned for it.
HotStats == hot_in.stats
HotLabels == {hot_out[i].label : i \in 1..Len(hot_out)}

\* area / total within [1e-4, 0.25], in exact arithmetic.
InFractionBand(area, total) ==
    area * MinFracDen >= total /\ area * MaxFracDen <= total

\* max(1, floor(1e-4 * total)) <= area <= max(1, floor(0.25 * total)), in
\* exact arithmetic.
InPixelBand(area, total) ==
    /\ area >= 1
    /\ (area + 1) * MinFracDen > total
    /\ (area * MaxFracDen <= total \/ area = 1)

\* C7 (as claimed): every returned hotspot has an area a with
\* 1e-4 * totalPixels <= a <= 0.25 * totalPixels.
C7_AreaWithinFractions ==
    hot_pc = "returned" =>
        \A i \in 1..Len(hot_out) : InFractionBand(hot_out[i].pixels, hot_in.total)

\* C7 (amended): every returned hotspot has an area a with
\* max(1, floor(1e-4 * totalPixels)) <= a <= max(1, floor(0.25 * totalPixels)),
\* and every component outside these whole-pixel bounds is dropped.
C7_AreaWithinPixelBounds ==
    hot_pc = "returned" =>
        /\ \A i \in 1..Len(hot_out) : InPixelBand(hot_out[i].pixels, hot_in.total)
        /\ \A j \in 1..Len(HotStats) :
              ~InPixelBand(HotStats[j].area, hot_in.total)
                  => HotStats[j].label \notin HotLabels

\* C7 witness: a frame with a hotspot kept below the real-valued lower
\* bound, a component dropped for being too small and one for being too large.
C7_Witness ==
    /\ hot_pc = "returned"
    /\ \E i \in 1..Len(hot_out) :
          hot_out[i].pixels * MinFracDen < hot_in.total
    /\ \E j \in 1..Len(HotStats) :
          (HotStats[j].area + 1) * MinFracDen <= hot_in.total
          /\ HotStats[j].label \notin HotLabels
    /\ \E j \in 1..Len(HotStats) :
          HotStats[j].area * MaxFracDen > hot_in.total
          /\ HotStats[j].label \notin HotLabels

\* C8: a component whose area lies in the closed band
\* [1e-4 * totalPixels, 0.25 * totalPixels], the two ends included, is
\* returned, unless the list is full (20 entries) with hotspots at least as
\* large.
C8_ClosedBandRetained ==
    hot_pc = "returned" =>
        \A j \in 1..Len(HotStats) :
            InFractionBand(HotStats[j].area, hot_in.total) =>
                \/ \E i \in 1..Len(hot_out) :
                      /\ hot_out[i].label = HotStats[j].label
                      /\ hot_out[i].pixels = HotStats[j].area
                \/ /\ Len(hot_out) = 20
                   /\ \A i \in 1..Len(hot_out) : hot_out[i].pixels >= HotStats[j].area

\* C8 witness: a frame with one component of exactly 1e-4 * totalPixels and
\* one of exactly 0.25 * totalPixels, both returned.
C8_Witness ==
    /\ hot_pc = "returned"
    /\ \E j, k \in 1..Len(HotStats) :
          /\ HotStats[j].area * MinFracDen = hot_in.total
          /\ HotStats[k].area * MaxFracDen = hot_in.total
          /\ {HotStats[j].label, HotStats[k].label} \subseteq HotLabels

\* The labels of the components that pass the area test.
HotSurvivors ==
    {j \in 1..Len(HotStats) : AreaKept(HotStats[j].area, hot_in.total)}

\* C10: the returned list is sorted by pixel area, non-increasing, holds at
\* most 20 entries, each a surviving component listed once, all of them when
\* no more than 20 survive; a survivor left out is no larger than any kept.
C10_SortedAndCapped ==
    hot_pc = "returned" =>
        /\ Len(hot_out) = Min(20, Cardinality(HotSurvivors))
        /\ \A i \in 1..(Len(hot_out) - 1) : hot_out[i].pixels >= hot_out[i + 1].pixels
        /\ \A i \in 1..Len(hot_out) :
              /\ hot_out[i].label \in HotSurvivors
              /\ hot_out[i].pixels = HotStats[hot_out[i].label].area
        /\ \A i, k \in 1..Len(hot_out) : i # k => hot_out[i].label # hot_out[k].label
        /\ \A j \in HotSurvivors \ HotLabels :
              \A i \in 1..Len(hot_out) : hot_out[i].pixels >= HotStats[j].area

\* C10 witness: more than 20 components survive, the largest is the last
\* label, it comes first in the list and a smaller survivor is left out.
C10_Witness ==
    /\ hot_pc = "returned"
    /\ Cardinality(HotSurvivors) > 20
    /\ Len(hot_out) = 20
    /\ hot_out[1].label = Len(HotStats)
    /\ \E j \in HotSurvivors \ HotLabels : HotStats[j].area < hot_out[20].pixels

\* The hotspots the run accumulated and the ones the summary lists.
SumAll == sum_in.hotspots
SumTop == summary.hotspots
SumAllSet == {SumAll[i] : i \in 1..Len(SumAll)}
SumTopSet == {SumTop[i] : i \in 1..Len(SumTop)}

\* C9: the summary lists at most 40 hotspots, all the accumulated ones when
\* there are no more than 40, sorted by pixel area descending; no omitted
\* hotspot is larger than a listed one; minHotspotTempC and maxHotspotTempC are
\* the least and greatest tempC over all accumulated hotspots, and are null
\* exactly when none was accumulated.
C9_SummaryTopAndTemps ==
    sum_pc = "returned" =>
        /\ Len(SumTop) = Min(40, Len(SumAll))
        /\ \A i \in 1..(Len(SumTop) - 1) : SumTop[i].pixels >= SumTop[i + 1].pixels
        /\ SumTopSet \subseteq SumAllSet
        /\ Cardinality(SumTopSet) = Len(SumTop)
        /\ \A h \in SumAllSet \ SumTopSet :
              \A i \in 1..Len(SumTop) : SumTop[i].pixels >= h.pixels
        /\ (SumAll = <<>>) <=> (summary.minHotspotTempC = <<>>)
        /\ (SumAll = <<>>) <=> (summary.maxHotspotTempC = <<>>)
        /\ SumAll # <<>> =>
              /\ \E h \in SumAllSet : summary.minHotspotTempC = <<h.tempC>>
              /\ \E h \in SumAllSet : summary.maxHotspotTempC = <<h.tempC>>
              /\ \A h \in SumAllSet :
                    /\ summary.minHotspotTempC[1] <= h.tempC
                    /\ summary.maxHotspotTempC[1] >= h.tempC

\* C9 witness: more than 40 hotspots were accumulated, of different areas, and
\* the coldest one is not among the 40 listed.
C9_Witness ==
    /\ sum_pc = "returned"
    /\ Len(SumAll) > 40
    /\ Len(SumTop) = 40
    /\ SumTop[1].pixels > SumTop[40].pixels
    /\ \A i \in 1..Len(SumTop) : SumTop[i].tempC > summary.minHotspotTempC[1]

\* C14 (as claimed): in every invocation of the processor, through the API
\* or directly on the command line, the gamma the pipeline uses lies in
\* [0.1, 6.0] and alphaMax in [0, 1].
C14_GammaAlphaInRange ==
    cfg_pc = "parsed" =>
        /\ args.gamma >= GammaMin /\ args.gamma <= GammaMax
        /\ args.alpha >= 0 /\ args.alpha <= AlphaHi

\* The frame's score map and what the loop body made of it.
FrameDone == frm_pc \in {"summary", "done"}
FrameHeat == frm_in.heat_used
FrameConstant == \A i, j \in 1..Len(FrameHeat) : FrameHeat[i] = FrameHeat[j]

\* C11: for every score map, constant, non-constant or empty, the high
\* threshold is strictly greater than the low one; it is that threshold the
\* hotspot mask and the normalisation use, and the normalisation divides by
\* a positive number.
C11_ThresholdsOrdered ==
    FrameDone =>
        /\ frm_out.p_high_val > frm_out.p_low_val
        /\ frm_out.p_high_val - frm_out.p_low_val > 0
        /\ frm_out.hotspots =
              find_hotspots_from_thr(Len(FrameHeat),
                                     ComponentsOf(FrameHeat, frm_out.p_high_val),
                                     frm_in.args.ambient, frm_in.args.maxC,
                                     frm_in.args.gamma)
        /\ \A i \in 1..Len(FrameHeat) :
              /\ frm_out.t[i] # NaN
              /\ frm_out.t[i] =
                    np_clip(((FrameHeat[i] * 1000 - frm_out.p_low_val) * 1000)
                               \div (frm_out.p_high_val - frm_out.p_low_val), 0, 1000)

\* C11 witness: a constant map of several pixels under pLow < pHigh: both
\* percentiles fall on the same value and the high one was moved 1e-6 up.
C11_Witness ==
    /\ FrameDone /\ Len(FrameHeat) > 1 /\ FrameConstant
    /\ frm_in.args.pLow < frm_in.args.pHigh
    /\ frm_out.p_low_val = FrameHeat[1] * 1000
    /\ frm_out.p_high_val = frm_out.p_low_val + Eps

\* C13: stat and ema do not influence processing: under a namespace that
\* differs in stat and ema only, the same frame gives the same thresholds,
\* hotspots, output frame and accumulated list, and the summary differs in
\* its stat field at most.
C13_StatEmaNoInfluence ==
    FrameDone =>
        \A st \in {"avg", "max"}, em \in {0, 500, 1000} :
            LET b == [frm_in.args EXCEPT !.stat = st, !.ema = em]
            IN /\ FrameResult(frm_in, b) = frm_out
               /\ frm_pc = "done" =>
                     build_summary(b, 1, (1 * 1000 * 1000) \div frm_in.fps,
                                   frm_out.all_hotspots)
                        = [summary EXCEPT !.stat = st]

\* C13 witness: a run with --stat max --ema 0.5 that drew an overlay, found a
\* hotspot and wrote "max" in its summary.
C13_Witness ==
    /\ frm_pc = "done"
    /\ frm_in.args.stat = "max" /\ frm_in.args.ema = 500
    /\ ~frm_in.no_overlay /\ frm_out.hotspots # <<>>
    /\ summary.stat = "max" /\ summary.hotspots # <<>>

\* C17: a frame whose score map is constant gives no hotspot: the threshold
\* lies strictly above every pixel and the mask is empty.
C17_ConstantMapNoHotspots ==
    (FrameDone /\ FrameConstant) =>
        /\ \A i \in 1..Len(FrameHeat) : FrameHeat[i] * 1000 < frm_out.p_high_val
        /\ MaskOf(FrameHeat, frm_out.p_high_val) = {}
        /\ frm_out.hotspots = <<>>
        /\ frm_out.all_hotspots = <<>>

\* C17 witness: an all-black frame (score 0 everywhere) under pLow < pHigh:
\* the threshold is 1e-6 and the frame has no hotspot.
C17_Witness ==
    /\ FrameDone /\ FrameConstant /\ Len(FrameHeat) > 0
    /\ \A i \in 1..Len(FrameHeat) : FrameHeat[i] = 0
    /\ frm_in.args.pLow < frm_in.args.pHigh
    /\ frm_out.p_high_val = Eps
    /\ frm_out.hotspots = <<>>

\* The hotspots find_hotspots_from_thr returns for a frame of the run.
RunHotspotsOf(stats) ==
    find_hotspots_from_thr(SumFrameSize, stats, DefaultArgs.ambient, DefaultArgs.maxC,
                           DefaultArgs.gamma)

\* C12: the run's hotspot list is append-only. A step that processes frame i
\* (the counter goes from i to i + 1) leaves the list as it was, followed by
\* exactly the hotspots of that frame, in their order, each with frameIdx = i
\* and tSec = i / fps; every other step leaves the list alone; frameIdx never
\* decreases along the list.
C12_AppendOnly ==
    [][/\ Len(all_hotspots') >= Len(all_hotspots)
       /\ SubSeq(all_hotspots', 1, Len(all_hotspots)) = all_hotspots
       /\ frame_idx' # frame_idx + 1 => all_hotspots' = all_hotspots
       /\ frame_idx' = frame_idx + 1 =>
             \E stats \in RunFrames :
                LET hs == RunHotspotsOf(stats)
                    added == SubSeq(all_hotspots', Len(all_hotspots) + 1,
                                    Len(all_hotspots'))
                IN /\ Len(added) = Len(hs)
                   /\ \A i \in 1..Len(hs) :
                         /\ added[i].label = hs[i].label
                         /\ added[i].pixels = hs[i].pixels
                         /\ added[i].meanScore = hs[i].meanScore
                         /\ added[i].tempC = hs[i].tempC
                         /\ added[i].frameIdx = frame_idx
                         /\ added[i].tSec * fps <= frame_idx * 1000 * 1000
                         /\ (added[i].tSec + 1) * fps > frame_idx * 1000 * 1000
       /\ \A i \in 1..(Len(all_hotspots') - 1) :
             all_hotspots'[i].frameIdx <= all_hotspots'[i + 1].frameIdx
      ]_vars

\* C12 witness: three frames processed, the second without a hotspot; the
\* list holds the same hotspot for frames 0 and 2, once each, in frame order.
C12_Witness ==
    /\ frame_idx = 3 /\ Len(all_hotspots) = 2
    /\ all_hotspots[1].frameIdx = 0 /\ all_hotspots[1].tSec = 0
    /\ all_hotspots[2].frameIdx = 2 /\ all_hotspots[2].tSec * fps = 2 * 1000 * 1000
    /\ all_hotspots[1].label = all_hotspots[2].label
    /\ all_hotspots[1].pixels = all_hotspots[2].pixels

\* The log lines the client received, in the order it received them.
SseLines ==
    LET data == SelectSeq(sse_out, LAMBDA e : e.event = "data")
    IN [i \in 1..Len(data) |-> data[i].data]
SseDone == \E i \in 1..Len(sse_out) : sse_out[i].event = "done"

\* C15: at every point of every interleaving the client has received the
\* first last_index lines of the job's log, each once and in append order;
\* the done event comes last, carries the job's final status, and when it was
\* emitted the client had received the whole log, to which run_job appends
\* nothing more.
C15_LogDelivered ==
    (sse_pc # "idle" /\ JOBS[sse_job] # NoJob) =>
        /\ Len(SseLines) = sse_last
        /\ SseLines = SubSeq(JOBS[sse_job].log, 1, sse_last)
        /\ \A i \in 1..Len(sse_out) :
              sse_out[i].event = "done" =>
                 /\ i = Len(sse_out) /\ sse_pc = "ended"
                 /\ SseLines = JOBS[sse_job].log
                 /\ JOBS[sse_job].status \in {"done", "error"}
                 /\ sse_out[i].data.tag = JOBS[sse_job].status
                 /\ job_pc[sse_job] = "returned"

\* C15 witness: the stream ended with the done event of a job that ended
\* done, after the line of upload and every line of the subprocess.
C15_Witness ==
    /\ sse_pc = "ended" /\ SseDone
    /\ JOBS[sse_job] # NoJob /\ JOBS[sse_job].status = "done"
    /\ Len(SseLines) = MaxLines + 1
    /\ SseLines[1].tag = "[api] params"
    /\ SseLines[MaxLines + 1] = Line("out", MaxLines)

\* The statuses a job may move to from a status (None before upload).
StatusMoves ==
    {<<"queued", "running">>, <<"running", "done">>, <<"running", "error">>}
Terminal(job) == job.status \in {"done", "error"}

\* C18: a job's status only moves queued -> running -> done or error; a job
\* that is done or error keeps its status, error and finished_at for ever;
\* finished_at is set exactly when the status is done or error.
C18_StatusLifecycle ==
    /\ [](\A j \in JobIds :
             JOBS[j] # NoJob => (JOBS[j].finished_at # <<>> <=> Terminal(JOBS[j])))
    /\ [][\A j \in JobIds :
             /\ JOBS[j] = NoJob => (JOBS'[j] = NoJob \/ JOBS'[j].status = "queued")
             /\ JOBS[j] # NoJob =>
                   /\ JOBS'[j] # NoJob
                   /\ \/ JOBS'[j].status = JOBS[j].status
                      \/ <<JOBS[j].status, JOBS'[j].status>> \in StatusMoves
                   /\ Terminal(JOBS[j]) =>
                         /\ JOBS'[j].status = JOBS[j].status
                         /\ JOBS'[j].error = JOBS[j].error
                         /\ JOBS'[j].finished_at = JOBS[j].finished_at]_vars

\* C18 witness: one job failed before its subprocess started, the other ended
\* done later; both have finished_at set, the second after the first.
C18_Witness ==
    \E j, k \in JobIds :
        /\ JOBS[j] # NoJob /\ JOBS[j].status = "error" /\ proc[j].state = "none"
        /\ JOBS[j].finished_at # <<>>
        /\ JOBS[k] # NoJob /\ JOBS[k].status = "done"
        /\ JOBS[k].finished_at # <<>>
        /\ JOBS[k].finished_at[1] > JOBS[j].finished_at[1]

\* C19 (as claimed): every job created by upload eventually reaches status
\* done or error, its thread being scheduled and its subprocess terminating.
C19_JobEventuallyEnds ==
    \A j \in JobIds : (JOBS[j] # NoJob) ~> (JOBS[j] # NoJob /\ Terminal(JOBS[j]))

\* The loop of the run has ended by the end of the stream.
LoopEnded ==
    pc \in {"release_cap", "release_out", "summary", "summary_open", "summary_dump",
            "summary_close", "exit"} /\ ~OpenFailed /\ cap # "none"
ProgressLogged(n) ==
    \E i \in 1..Len(log) : log[i].tag = "progress" /\ log[i].n = n

\* C16 (as claimed): a progress line is emitted after frame n exactly when n
\* is a multiple of 30 or, the total frame count being known, n is the final
\* frame; when the total is known, the last frame processed has its line.
C16_ProgressCadence ==
    LoopEnded =>
        /\ \A n \in 1..frame_idx :
              ProgressLogged(n) <=>
                 (n % ProgressEvery = 0 \/ (total_frames > 0 /\ n = frame_idx))
        /\ (total_frames > 0 /\ frame_idx > 0) => ProgressLogged(frame_idx)

====
